---- MODULE Spec2Model ----
(***************************************************************************)
(* TeleQuizBot (src/bot.py): the per-user quiz session, its persistence to *)
(* players.json and the leaderboard, as a state machine.                   *)
(*                                                                         *)
(* Every handler is an async function: it runs without interruption up to  *)
(* its next outbound call (await), where it is suspended; the call either  *)
(* returns (Return) or raises (Fail).  An exception leaves the handler, is *)
(* reported by error_handler and leaves the conversation state as it was.  *)
(***************************************************************************)
EXTENDS Integers, Sequences, FiniteSets, TLC

VARIABLES
    players,    \* the dict players: insertion-ordered sequence of [key, val]
    file,       \* the content of players.json
    conv,       \* ConversationHandler state per (chat, user)
    inflight,   \* handlers suspended at an outbound call
    faults,     \* number of outbound calls that raised so far
    clean,      \* per user: the chat of an undisturbed round in progress, or 0
    hits        \* per user: taps of the undisturbed round that hit correctIndex

vars == <<players, file, conv, inflight, faults, clean, hits>>

----------------------------------------------------------------------------
(* Bounds *)

\* outbound calls that raise in one behaviour
MaxFaults == 1
\* tap handlers that may be suspended at once (SpecTaps)
MaxInflight == 2
\* sessions in the store in the leaderboard specification
NumBoard == 12

Users == {1, 2}
Chats == {1, 2}

\* message texts a user may send: a blank one and " a "
Texts == { <<" ">>, <<" ", "a", " ">> }

\* callback data of a tap: two of the buttons, a number that is no button,
\* a text that is no number
Data == {"1", "2", "9", "x"}

----------------------------------------------------------------------------
(* Program constants *)

\* leaderboard[:10] and user_rank > 10
TopN == 10

\* questions: (number of options, correct_index) of each entry
questions ==
    << [nopts |-> 4, correct |-> 2],
       [nopts |-> 4, correct |-> 1],
       [nopts |-> 4, correct |-> 1],
       [nopts |-> 4, correct |-> 1],
       [nopts |-> 4, correct |-> 1] >>

ASK_NAME == "ASK_NAME"
ASK_QUESTIONS == "ASK_QUESTIONS"
END == "END"

----------------------------------------------------------------------------
(* Values *)

\* str(user.id)
RECURSIVE Digits(_)
Digits(n) ==
    LET d == <<"0", "1", "2", "3", "4", "5", "6", "7", "8", "9">>
    IN  IF n < 10 THEN << d[n + 1] >> ELSE Digits(n \div 10) \o << d[(n % 10) + 1] >>

get_user_id(u) == Digits(u)

\* {"name": "", "score": 0, "q_index": 0}
Fresh == [name |-> <<>>, score |-> 0, q_index |-> 0]

Named(n) == [name |-> n, score |-> 0, q_index |-> 0]

\* the default of players.get in finish_quiz
You == [name |-> <<"Y", "o", "u">>, score |-> 0, q_index |-> 0]

\* str.strip()
RECURSIVE LStrip(_)
LStrip(s) == IF s # <<>> /\ Head(s) = " " THEN LStrip(Tail(s)) ELSE s

RECURSIVE RStrip(_)
RStrip(s) ==
    IF s # <<>> /\ s[Len(s)] = " " THEN RStrip(SubSeq(s, 1, Len(s) - 1)) ELSE s

Strip(s) == RStrip(LStrip(s))

\* int(query.data), with ValueError mapped to -1
ParseChoice(d) ==
    CASE d = "0" -> 0
      [] d = "1" -> 1
      [] d = "2" -> 2
      [] d = "3" -> 3
      [] d = "9" -> 9
      [] OTHER   -> -1

----------------------------------------------------------------------------
(* The dict players *)

Keys(ps) == { ps[i].key : i \in 1..Len(ps) }

Has(ps, k) == k \in Keys(ps)

Pos(ps, k) == CHOOSE i \in 1..Len(ps) : ps[i].key = k

Get(ps, k) == ps[Pos(ps, k)].val

\* players[k] = v: an existing key keeps its place, a new key goes last
Put(ps, k, v) ==
    IF Has(ps, k)
    THEN [ps EXCEPT ![Pos(ps, k)].val = v]
    ELSE Append(ps, [key |-> k, val |-> v])

\* variant of Pop: the whole mapping is emptied (players.clear())
PopAll(ps, k) == <<>>

\* players.pop(k, None)
Pop(ps, k) ==
    IF Has(ps, k)
    THEN SubSeq(ps, 1, Pos(ps, k) - 1) \o SubSeq(ps, Pos(ps, k) + 1, Len(ps))
    ELSE ps

\* players.values()
Values(ps) == [i \in 1..Len(ps) |-> ps[i].val]

----------------------------------------------------------------------------
(* Persistence: players.json *)

\* the file is missing, or holds a written image
Absent == [state |-> "absent", toks |-> <<>>]

\* json.dump: the mapping as a flat token sequence, keys written as strings
RECURSIVE Dump(_)
Dump(ps) ==
    IF ps = <<>> THEN <<>>
    ELSE << Head(ps).key, Head(ps).val.name, Head(ps).val.score,
            Head(ps).val.q_index >> \o Dump(Tail(ps))

\* json.load of a well-formed image
RECURSIVE Parse(_)
Parse(toks) ==
    IF Len(toks) < 4 THEN <<>>
    ELSE << [key |-> toks[1],
             val |-> [name |-> toks[2], score |-> toks[3], q_index |-> toks[4]]] >>
         \o Parse(SubSeq(toks, 5, Len(toks)))

\* load_state: no file or an unreadable file gives the empty mapping
load_state(f) == IF f.state = "ok" THEN Parse(f.toks) ELSE <<>>

\* save_state: the whole mapping is written.  A write that raises is logged
\* and swallowed (lines 58-59); the runs modelled here are those in which
\* the writes succeed
save_state(ps) == [state |-> "ok", toks |-> Dump(ps)]

----------------------------------------------------------------------------
(* Leaderboard *)

Reverse(s) == [i \in 1..Len(s) |-> s[Len(s) + 1 - i]]

\* one step of a stable ascending sort: x goes after every element whose
\* score is not greater
RECURSIVE InsertAsc(_, _)
InsertAsc(s, x) ==
    IF s = <<>> THEN << x >>
    ELSE IF Head(s).score <= x.score
         THEN << Head(s) >> \o InsertAsc(Tail(s), x)
         ELSE << x >> \o s

RECURSIVE SortAsc(_)
SortAsc(s) ==
    IF s = <<>> THEN <<>>
    ELSE InsertAsc(SortAsc(SubSeq(s, 1, Len(s) - 1)), s[Len(s)])

\* variant of SortedByScore: sort ascending, then reverse (ties reversed)
SortedThenReversed(s) == Reverse(SortAsc(s))

\* sorted(..., key=score, reverse=True): reverse, sort stably, reverse
SortedByScore(s) == Reverse(SortAsc(Reverse(s)))

\* the rows "i. name - score" of leaderboard[:10]
TopRows(lb) ==
    [i \in 1..(IF Len(lb) < TopN THEN Len(lb) ELSE TopN) |->
        << i, lb[i].name, lb[i].score >>]

\* leaderboard.index(player) + 1: the first entry EQUAL to player; when there
\* is none, the fallback finds no identical entry either and gives len
UserRank(lb, player) ==
    IF \E i \in 1..Len(lb) : lb[i] = player
    THEN CHOOSE i \in 1..Len(lb) :
            lb[i] = player /\ \A j \in 1..(i - 1) : lb[j] # player
    ELSE Len(lb)

----------------------------------------------------------------------------
(* Outbound messages *)

NoRow == <<>>

Msg(kind, u, arg) == [kind |-> kind, to |-> u, arg |-> arg, rows |-> <<>>, own |-> NoRow]

\* finish_quiz, up to its send: the summary for user u
FinishMsg(ps, u) ==
    LET k      == get_user_id(u)
        player == IF Has(ps, k) THEN Get(ps, k) ELSE You
        lb     == SortedByScore(Values(ps))
        rank   == UserRank(lb, player)
    IN  [kind |-> "summary", to |-> u, arg |-> player.score,
         rows |-> TopRows(lb),
         own  |-> IF rank > TopN THEN << rank, player.name, player.score >>
                  ELSE NoRow]

\* leaderboard_cmd, up to its reply
LeaderboardMsg(ps, u) ==
    IF ps = <<>> THEN Msg("no_scores", u, 0)
    ELSE [kind |-> "leaderboard", to |-> u, arg |-> 0,
          rows |-> TopRows(SortedByScore(Values(ps))), own |-> NoRow]

----------------------------------------------------------------------------
(* Handlers in flight *)

NQ == Len(questions)

\* a handler suspended at the outbound call `call`; d is query.data, idx is
\* handle_answer's local idx, scored / advanced record lines 155 and 161
Task(kind, u, c, pc, call, d) ==
    [kind |-> kind, u |-> u, c |-> c, pc |-> pc, call |-> call, d |-> d,
     idx |-> 0, scored |-> FALSE, advanced |-> FALSE]

Without(s, i) == SubSeq(s, 1, i - 1) \o SubSeq(s, i + 1, Len(s))

Quiet == inflight = <<>>

\* the undisturbed round of user u goes on only in its own chat
StillClean(u, c) == IF clean[u] = c THEN c ELSE 0

Disturb(u) ==
    /\ clean' = [clean EXCEPT ![u] = 0]
    /\ hits' = [hits EXCEPT ![u] = 0]

----------------------------------------------------------------------------
(* Initial state: main() ran load_state with no players.json *)

Init ==
    /\ file = Absent
    /\ players = load_state(Absent)
    /\ conv = [k \in Chats \X Users |-> END]
    /\ inflight = <<>>
    /\ faults = 0
    /\ clean = [u \in Users |-> 0]
    /\ hits = [u \in Users |-> 0]

----------------------------------------------------------------------------
(* Events: each runs its handler up to the first outbound call *)

\* variant of start_session: an existing record is kept (setdefault)
start_session_keep(ps, k) == IF Has(ps, k) THEN ps ELSE Put(ps, k, Fresh)

\* start, line 84: the user's record is bound to a fresh session
start_session(ps, k) == Put(ps, k, Fresh)

\* "/start": start, lines 82-87; entry point, fallback and re-entry, so it
\* is taken in every conversation state
Begin(u, c) ==
    /\ players' = start_session(players, get_user_id(u))
    /\ file' = save_state(players')
    /\ inflight' = Append(inflight,
          Task("start", u, c, "start_reply", Msg("welcome", u, 0), ""))
    /\ clean' = [clean EXCEPT ![u] = c]
    /\ hits' = [hits EXCEPT ![u] = 0]
    /\ UNCHANGED <<conv, faults>>

\* a text message in ASK_NAME: ask_name, lines 92-102
Text(u, c, txt) ==
    /\ conv[<<c, u>>] = ASK_NAME
    /\ LET name == Strip(txt) IN
       IF name = <<>>
       THEN /\ inflight' = Append(inflight,
                  Task("ask_name", u, c, "name_reprompt", Msg("reprompt", u, 0), ""))
            /\ Disturb(u)
            /\ UNCHANGED <<players, file, faults, conv>>
       ELSE /\ players' = Put(players, get_user_id(u), Named(name))
            /\ file' = save_state(players')
            /\ inflight' = Append(inflight,
                  Task("ask_name", u, c, "name_hi", Msg("hi", u, name), ""))
            /\ clean' = [clean EXCEPT ![u] = StillClean(u, c)]
            /\ hits' = [hits EXCEPT ![u] = 0]
            /\ UNCHANGED <<conv, faults>>

\* a button tap in ASK_QUESTIONS: handle_answer, lines 129-130
ButtonTap(u, c, d) ==
    /\ conv[<<c, u>>] = ASK_QUESTIONS
    /\ inflight' = Append(inflight,
          Task("answer", u, c, "ans_ack", Msg("ack", u, 0), d))
    /\ clean' = [clean EXCEPT ![u] = StillClean(u, c)]
    /\ hits' = [hits EXCEPT ![u] = IF StillClean(u, c) = 0 THEN 0 ELSE @]
    /\ UNCHANGED <<players, file, faults, conv>>

\* "/cancel", a fallback of a running conversation: cancel, lines 199-201
Cancel(u, c) ==
    /\ conv[<<c, u>>] # END
    /\ inflight' = Append(inflight,
          Task("cancel", u, c, "cancel_reply", Msg("cancelled", u, 0), ""))
    /\ Disturb(u)
    /\ UNCHANGED <<players, file, faults, conv>>

\* "/reset", in every conversation state: reset, lines 207-211
Reset(u, c) ==
    /\ IF Has(players, get_user_id(u))
       THEN /\ players' = Pop(players, get_user_id(u))
            /\ file' = save_state(players')
       ELSE UNCHANGED <<players, file>>
    /\ inflight' = Append(inflight,
          Task("reset", u, c, "reset_reply", Msg("reset", u, 0), ""))
    /\ Disturb(u)
    /\ UNCHANGED <<conv, faults>>

\* "/leaderboard", in every conversation state: leaderboard_cmd, lines 217-225
ShowLeaderboard(u, c) ==
    /\ inflight' = Append(inflight,
          Task("leaderboard", u, c, "lb_reply", LeaderboardMsg(players, u), ""))
    /\ Disturb(u)
    /\ UNCHANGED <<players, file, faults, conv>>

----------------------------------------------------------------------------
(* Continuations: the outbound call inflight[i].call returned *)

\* the handler returns: the conversation of (chat, user) moves to state st
Ends(i, st) ==
    LET t == inflight[i] IN
    /\ conv' = [conv EXCEPT ![<<t.c, t.u>>] = st]
    /\ inflight' = Without(inflight, i)

\* ask_question, lines 107-125, up to its send: the mapping and file it
\* leaves, and the outbound call it is suspended at
ask_question(ps, f, u) ==
    LET k   == get_user_id(u)
        ps1 == IF Has(ps, k) THEN ps ELSE Put(ps, k, Fresh)
        f1  == IF Has(ps, k) THEN f ELSE save_state(ps1)
        idx == Get(ps1, k).q_index
    IN  IF idx < NQ
        THEN [ps |-> ps1, file |-> f1, pc |-> "ask_send",
              call |-> Msg("question", u, idx)]
        ELSE [ps |-> ps1, file |-> f1, pc |-> "finish_send",
              call |-> FinishMsg(ps1, u)]

\* variant of Evaluate: the tap is compared with the question after the
\* cursor
EvaluateNext(player, d) ==
    IF ParseChoice(d) = questions[((player.q_index + 1) % NQ) + 1].correct
    THEN [player EXCEPT !.score = @ + 1]
    ELSE player

\* handle_answer, lines 145-155: the session after the tap was compared
\* with the question at the cursor
Evaluate(player, d) ==
    IF ParseChoice(d) = questions[player.q_index + 1].correct
    THEN [player EXCEPT !.score = @ + 1]
    ELSE player

\* variant of AfterTap: the finished-guard comes after the scoring
AfterTapLate(player, d) ==
    IF player.q_index >= NQ
    THEN [player EXCEPT !.score = @ + 1]
    ELSE [player EXCEPT !.score =
             IF ParseChoice(d) = questions[player.q_index + 1].correct
             THEN @ + 1 ELSE @]

\* handle_answer, lines 138-155: a tap on a finished session is not evaluated
AfterTap(player, d) ==
    IF player.q_index >= NQ THEN player ELSE Evaluate(player, d)

\* handle_answer, line 161
Advance(player) == [player EXCEPT !.q_index = @ + 1]

\* start, line 88
StartReplied(i) ==
    /\ inflight[i].pc = "start_reply"
    /\ Ends(i, ASK_NAME)
    /\ UNCHANGED <<players, file, faults, clean, hits>>

\* ask_name, line 97
NameReprompted(i) ==
    /\ inflight[i].pc = "name_reprompt"
    /\ Ends(i, ASK_NAME)
    /\ UNCHANGED <<players, file, faults, clean, hits>>

\* ask_name, line 103, into ask_question
NameGreeted(i) ==
    LET t == inflight[i]
        a == ask_question(players, file, t.u)
    IN
    /\ t.pc = "name_hi"
    /\ players' = a.ps
    /\ file' = a.file
    /\ inflight' = [inflight EXCEPT ![i] = [t EXCEPT !.pc = a.pc, !.call = a.call]]
    /\ UNCHANGED <<conv, faults, clean, hits>>

\* ask_question, line 123
QuestionSent(i) ==
    /\ inflight[i].pc = "ask_send"
    /\ Ends(i, ASK_QUESTIONS)
    /\ UNCHANGED <<players, file, faults, clean, hits>>

\* finish_quiz, line 194
SummarySent(i) ==
    /\ inflight[i].pc = "finish_send"
    /\ Ends(i, END)
    /\ UNCHANGED <<players, file, faults, clean, hits>>

\* handle_answer, lines 131-158: query.answer() returned
AnswerAcked(i) ==
    LET t      == inflight[i]
        k      == get_user_id(t.u)
        ps1    == IF Has(players, k) THEN players ELSE Put(players, k, Fresh)
        player == Get(ps1, k)
        idx    == player.q_index
        after  == AfterTap(player, t.d)
    IN
    /\ t.pc = "ans_ack"
    /\ players' = Put(ps1, k, after)
    /\ IF idx >= NQ
       THEN /\ inflight' = [inflight EXCEPT ![i] =
                  [t EXCEPT !.pc = "ans_finished", !.idx = idx, !.d = "",
                            !.call = Msg("already_finished", t.u, 0)]]
            /\ UNCHANGED hits
       ELSE /\ inflight' = [inflight EXCEPT ![i] =
                  [t EXCEPT !.pc = "ans_verdict", !.idx = idx, !.d = "",
                            !.call = IF after.score # player.score
                                     THEN Msg("correct", t.u, 0)
                                     ELSE Msg("wrong", t.u, questions[idx + 1].correct),
                            !.scored = (after.score # player.score)]]
            /\ hits' = [hits EXCEPT ![t.u] =
                  IF clean[t.u] # 0 /\ ParseChoice(t.d) = questions[idx + 1].correct
                  THEN @ + 1 ELSE @]
    /\ UNCHANGED <<file, conv, faults, clean>>

\* handle_answer, line 143
AlreadyFinishedShown(i) ==
    /\ inflight[i].pc = "ans_finished"
    /\ Ends(i, END)
    /\ UNCHANGED <<players, file, faults, clean, hits>>

\* variant of VerdictShown: players.json is written after the next message
\* was sent, not before
VerdictShownUnsaved(i) ==
    LET t   == inflight[i]
        k   == get_user_id(t.u)
        ps1 == Put(players, k, Advance(Get(players, k)))
        a   == ask_question(ps1, file, t.u)
    IN
    /\ t.pc = "ans_verdict"
    /\ players' = a.ps
    /\ file' = a.file
    /\ inflight' = [inflight EXCEPT ![i] =
          [t EXCEPT !.pc = a.pc, !.call = a.call, !.advanced = TRUE]]
    /\ UNCHANGED <<conv, faults, clean, hits>>

\* handle_answer, lines 161-165, into ask_question.  player is the entry of
\* players itself: no handler that rebinds or removes players[user_id] runs
\* while a tap handler is suspended
VerdictShown(i) ==
    LET t   == inflight[i]
        k   == get_user_id(t.u)
        ps1 == Put(players, k, Advance(Get(players, k)))
        a   == ask_question(ps1, save_state(ps1), t.u)
    IN
    /\ t.pc = "ans_verdict"
    /\ players' = a.ps
    /\ file' = a.file
    /\ inflight' = [inflight EXCEPT ![i] =
          [t EXCEPT !.pc = a.pc, !.call = a.call, !.advanced = TRUE]]
    /\ UNCHANGED <<conv, faults, clean, hits>>

\* cancel, line 202
CancelReplied(i) ==
    /\ inflight[i].pc = "cancel_reply"
    /\ Ends(i, END)
    /\ UNCHANGED <<players, file, faults, clean, hits>>

\* reset, line 212, and leaderboard_cmd, lines 219 and 225: these handlers
\* are outside the ConversationHandler, their return changes no state
PlainReplied(i) ==
    /\ inflight[i].pc \in {"reset_reply", "lb_reply"}
    /\ inflight' = Without(inflight, i)
    /\ UNCHANGED <<players, file, conv, faults, clean, hits>>

\* the outbound call of inflight[i] raised: the exception leaves the handler,
\* the conversation state stays; error_handler (lines 229-244) logs it, tries
\* to tell the user and swallows a failure to do so: it changes no state
Fail(i) ==
    /\ faults < MaxFaults
    /\ faults' = faults + 1
    /\ inflight' = Without(inflight, i)
    /\ Disturb(inflight[i].u)
    /\ UNCHANGED <<players, file, conv>>

\* the process is restarted: main() runs load_state, the conversation states
\* and the suspended handlers are gone
Restart ==
    /\ players' = load_state(file)
    /\ conv' = [k \in Chats \X Users |-> END]
    /\ inflight' = <<>>
    /\ clean' = [u \in Users |-> 0]
    /\ hits' = [u \in Users |-> 0]
    /\ UNCHANGED <<file, faults>>

----------------------------------------------------------------------------
(* Specifications *)

\* an update of a user of U in a chat of C is dispatched to its handler
Event(U, C) ==
    \E u \in U, c \in C :
        \/ Begin(u, c)
        \/ \E txt \in Texts : Text(u, c, txt)
        \/ \E d \in Data : ButtonTap(u, c, d)
        \/ Cancel(u, c)
        \/ Reset(u, c)
        \/ ShowLeaderboard(u, c)

Continue ==
    \E i \in 1..Len(inflight) :
        \/ StartReplied(i)
        \/ NameReprompted(i)
        \/ NameGreeted(i)
        \/ QuestionSent(i)
        \/ SummarySent(i)
        \/ AnswerAcked(i)
        \/ AlreadyFinishedShown(i)
        \/ VerdictShown(i)
        \/ CancelReplied(i)
        \/ PlainReplied(i)
        \/ Fail(i)

\* main(), line 256: the Application is built with its defaults, so one
\* update is handled to its end before the next is taken.  Spec: every user
\* talks to the bot in one chat
Next ==
    \/ Quiet /\ Event(Users, {1})
    \/ Continue
    \/ Restart

Spec == Init /\ [][Next]_vars

\* SpecChats: one user talks to the bot in two chats; the conversation state
\* is kept per (chat, user), lines 259-271, the session per user, line 28
NextChats ==
    \/ Quiet /\ Event({1}, Chats)
    \/ Continue
    \/ Restart

SpecChats == Init /\ [][NextChats]_vars

\* SpecTaps: the handlers of several taps of one user are in flight at once
\* (updates handled concurrently); every other update is handled alone
TapsOnly ==
    /\ Len(inflight) < MaxInflight
    /\ \A i \in 1..Len(inflight) : inflight[i].kind = "answer"

NextTaps ==
    \/ Quiet /\ Event({1}, {1})
    \/ TapsOnly /\ \E d \in Data : ButtonTap(1, 1, d)
    \/ Continue
    \/ Restart

SpecTaps == Init /\ [][NextTaps]_vars

\* SpecBoard: a store of NumBoard sessions.  User 1 joined last and is at
\* the last question; the others have finished.  User 1 answers the last
\* question or asks for the leaderboard
BoardName(i) == IF i % 2 = 1 THEN <<"a">> ELSE <<"b">>

Board(scores, me) ==
    [i \in 1..NumBoard |->
        IF i = NumBoard
        THEN [key |-> get_user_id(1), val |-> me]
        ELSE [key |-> get_user_id(i + 2),
              val |-> [name |-> BoardName(i), score |-> scores[i], q_index |-> NQ]]]

InitBoard ==
    \E scores \in [1..NumBoard -> {0, 1}], n \in {<<"a">>, <<"c">>} :
        /\ players = Board(scores,
              [name |-> n, score |-> scores[NumBoard], q_index |-> NQ - 1])
        /\ file = save_state(players)
        /\ conv = [k \in Chats \X Users |-> IF k = <<1, 1>> THEN ASK_QUESTIONS ELSE END]
        /\ inflight = <<>>
        /\ faults = 0
        /\ clean = [u \in Users |-> 0]
        /\ hits = [u \in Users |-> 0]

NextBoard ==
    \/ Quiet /\ \E d \in Data : ButtonTap(1, 1, d)
    \/ Quiet /\ ShowLeaderboard(1, 1)
    \/ \E i \in 1..Len(inflight) :
        \/ AnswerAcked(i)
        \/ VerdictShown(i)
        \/ SummarySent(i)
        \/ PlainReplied(i)

SpecBoard == InitBoard /\ [][NextBoard]_vars

\* SpecInvalid: one user in one chat whose taps all carry callback data that
\* is no option index: a number out of range or a text that is no number
InvalidData ==
    { d \in Data : ParseChoice(d) \notin 0..(questions[1].nopts - 1) }

NextInvalid ==
    \/ Quiet /\ Begin(1, 1)
    \/ Quiet /\ \E txt \in Texts : Text(1, 1, txt)
    \/ Quiet /\ \E d \in InvalidData : ButtonTap(1, 1, d)
    \/ Quiet /\ Cancel(1, 1)
    \/ Quiet /\ Reset(1, 1)
    \/ Quiet /\ ShowLeaderboard(1, 1)
    \/ Continue
    \/ Restart

SpecInvalid == Init /\ [][NextInvalid]_vars

----------------------------------------------------------------------------
(* Vocabulary of the properties *)

Sessions == { players[i].val : i \in 1..Len(players) }

KeyOf(t) == get_user_id(t.u)

\* session j comes before session i in the ranking: a greater score, or the
\* same score and an earlier place in the store
Ahead(ps, j, i) ==
    \/ ps[j].val.score > ps[i].val.score
    \/ ps[j].val.score = ps[i].val.score /\ j < i

\* the 1-indexed position of session i in the ranking
Place(ps, i) == 1 + Cardinality({ j \in 1..Len(ps) : Ahead(ps, j, i) })

AtPlace(ps, r) == CHOOSE i \in 1..Len(ps) : Place(ps, i) = r

ExpectedRows(ps) ==
    [r \in 1..(IF Len(ps) < TopN THEN Len(ps) ELSE TopN) |->
        << r, ps[AtPlace(ps, r)].val.name, ps[AtPlace(ps, r)].val.score >>]

IsBoard(m) == m.kind \in {"summary", "leaderboard"}

----------------------------------------------------------------------------
(* Properties *)

\* C1: after any sequence of events every session of the store has
\* 0 <= qIndex <= NQ and 0 <= score <= NQ.
C1_SessionBounds ==
    Quiet => \A p \in Sessions :
                /\ 0 <= p.q_index /\ p.q_index <= NQ
                /\ 0 <= p.score /\ p.score <= NQ

\* C2: a ButtonTap handled for a user who has no session answers "session
\* not found" and leaves the store unchanged: no session is fabricated.
C2_NoFabrication ==
    [][\A i \in 1..Len(inflight) :
          (AnswerAcked(i) /\ ~Has(players, KeyOf(inflight[i])))
              => /\ players' = players
                 /\ inflight'[i].call.kind = "session_not_found"]_vars

\* C3: a ButtonTap handled while the session has qIndex = NQ changes neither
\* score nor qIndex of any session, whichever way its handler ends, and the
\* message it issues is "already finished".
C3_LateTapFrame ==
    [][\A i \in 1..Len(inflight) :
          ( /\ inflight[i].kind = "answer"
            /\ Has(players, KeyOf(inflight[i]))
            /\ Get(players, KeyOf(inflight[i])).q_index = NQ
            /\ (AnswerAcked(i) \/ AlreadyFinishedShown(i) \/ Fail(i)) )
              => /\ players' = players
                 /\ file' = file
                 /\ AnswerAcked(i) => /\ inflight'[i].pc = "ans_finished"
                                      /\ inflight'[i].call.kind = "already_finished"]_vars

\* C3 witness: the handler of a late tap has reported "already finished".
C3_Witness ==
    \E i \in 1..Len(inflight) :
        /\ inflight[i].pc = "ans_finished"
        /\ inflight[i].call.kind = "already_finished"
        /\ Get(players, KeyOf(inflight[i])).q_index = NQ

\* C4: a Begin of a user who has a session, in whatever conversation state,
\* leaves that user with the fresh session (empty name, score 0, qIndex 0),
\* and it stays so while the start handler runs.
C4_BeginReplaces ==
    [][\A u \in Users, c \in Chats :
          /\ (Begin(u, c) /\ Has(players, get_user_id(u)))
                => /\ Has(players', get_user_id(u))
                   /\ Get(players', get_user_id(u)) = Fresh
                   /\ Len(players') = Len(players)
          /\ \A i \in 1..Len(inflight) :
                (inflight[i].kind = "start" /\ inflight[i].u = u
                    /\ (StartReplied(i) \/ Fail(i)))
                => Get(players', get_user_id(u)) = Fresh]_vars

\* C4 witness: a start handler runs for a user whose conversation was in
\* ASK_QUESTIONS, and the session is fresh.
C4_Witness ==
    \E i \in 1..Len(inflight) :
        /\ inflight[i].pc = "start_reply"
        /\ conv[<<inflight[i].c, inflight[i].u>>] = ASK_QUESTIONS
        /\ Get(players, KeyOf(inflight[i])) = Fresh

C6_OwnRowShown ==
    \A i \in 1..Len(inflight) :
        LET m == inflight[i].call
            k == KeyOf(inflight[i])
        IN  (IsBoard(m) /\ Has(players, k) /\ Place(players, Pos(players, k)) > TopN)
                => /\ m.rows = ExpectedRows(players)
                   /\ m.own = << Place(players, Pos(players, k)),
                                 Get(players, k).name, Get(players, k).score >>

\* C7: the rows of a leaderboard result are the sessions in ranking order
\* (descending score, equal scores in store order), the row at position i
\* carrying rank i, cut after TopN rows.
C7_StableRanking ==
    \A i \in 1..Len(inflight) :
        IsBoard(inflight[i].call) => inflight[i].call.rows = ExpectedRows(players)

\* C7 witness: a result of TopN rows in which sessions of different names
\* have the same score and consecutive ranks.
C7_Witness ==
    \E i \in 1..Len(inflight) :
        LET rows == inflight[i].call.rows IN
        /\ IsBoard(inflight[i].call)
        /\ Len(rows) = TopN
        /\ \E r \in 1..(TopN - 1) :
              /\ rows[r][3] = rows[r + 1][3]
              /\ rows[r][2] # rows[r + 1][2]
              /\ rows[r + 1][1] = rows[r][1] + 1

\* C8: whenever no handler is in flight, whichever way the last one ended,
\* players.json restores to exactly the in-memory mapping.
C8_FileMatchesMemory ==
    Quiet => load_state(file) = players

C10_CompareAdvanceAtomic ==
    [][\A i \in 1..Len(inflight) :
          ( /\ inflight[i].kind = "answer"
            /\ (Fail(i) \/ QuestionSent(i) \/ SummarySent(i) \/ AlreadyFinishedShown(i)) )
              => (inflight[i].scored => inflight[i].advanced)]_vars

\* C11: whenever a handler of a mutating event is suspended at its reply,
\* the mutation of that event is in the store and in players.json; a verdict
\* reply of a tap is issued only after the tap's score and qIndex change
\* was persisted.
C11_PersistBeforeReply ==
    \A i \in 1..Len(inflight) :
        /\ inflight[i].pc \in {"start_reply", "name_hi", "reset_reply"}
              => load_state(file) = players
        /\ inflight[i].pc = "ans_verdict"
              => /\ inflight[i].advanced
                 /\ load_state(file) = players

\* the session of key k has reached the end of the round
Terminal(ps, k) == Has(ps, k) /\ Get(ps, k).q_index = NQ

\* handler i goes into finish_quiz and issues the finish summary
IssuesSummary(i) ==
    /\ VerdictShown(i) \/ NameGreeted(i)
    /\ inflight'[i].pc = "finish_send"

C13_InvalidTapAdvances ==
    [][\A i \in 1..Len(inflight) :
          LET t == inflight[i]
              k == KeyOf(t)
          IN  /\ (t.pc = "ans_ack" /\ t.d \in InvalidData /\ AnswerAcked(i)
                    /\ Has(players, k) /\ Get(players, k).q_index < NQ)
                    => Get(players', k).score = Get(players, k).score
              /\ (t.kind = "answer"
                    /\ t.pc \in {"ans_verdict", "ask_send", "finish_send"}
                    /\ (VerdictShown(i) \/ QuestionSent(i) \/ SummarySent(i) \/ Fail(i)))
                    => /\ Get(players', k).score = Get(players, k).score
                       /\ (Fail(i) \/ QuestionSent(i) \/ SummarySent(i))
                             => Get(players', k).q_index = t.idx + 1]_vars

\* C14: a step that is neither a Begin nor a Reset of a user (nor a restart
\* of the process) keeps that user's session in the store and does not
\* decrease its qIndex, whichever user or chat the step belongs to.
C14_CursorMonotone ==
    [][\A u \in Users :
          LET k == get_user_id(u) IN
          ( /\ Has(players, k)
            /\ ~(\E c \in Chats : Begin(u, c) \/ Reset(u, c))
            /\ ~Restart )
              => /\ Has(players', k)
                 /\ Get(players', k).q_index >= Get(players, k).q_index]_vars

\* C15: a session with qIndex = NQ stays in the store with the same name,
\* score and qIndex in every step that is neither a Begin nor a Reset of
\* its user.
C15_TerminalStays ==
    [][\A u \in Users :
          LET k == get_user_id(u) IN
          ( /\ Terminal(players, k)
            /\ ~(\E c \in Chats : Begin(u, c) \/ Reset(u, c)) )
              => /\ Has(players', k)
                 /\ Get(players', k) = Get(players, k)]_vars

\* C16: a Reset leaves its user without a session, and leaves the store
\* unchanged when the user had none; a user without a session gets one
\* only by a Begin, so has no leaderboard row until then.
C16_ResetRemoves ==
    [][\A u \in Users :
          LET k == get_user_id(u) IN
          /\ \A c \in Chats :
                Reset(u, c) => /\ ~Has(players', k)
                               /\ ~Has(players, k) => players' = players
          /\ (~Has(players, k) /\ ~(\E c \in Chats : Begin(u, c)))
                => ~Has(players', k)]_vars

\* C17: whenever no handler is in flight, whichever way the last one ended,
\* every session has score <= qIndex.
C17_ScoreWithinCursor ==
    Quiet => \A p \in Sessions : p.score <= p.q_index

\* C18: in a finish summary the own row is present exactly when the
\* finishing user's own session is at a position greater than TopN of the
\* ranking, and the rank it carries is that position, also when another
\* session has the same name, score and qIndex.
C18_OwnRank ==
    \A i \in 1..Len(inflight) :
        LET m == inflight[i].call
            k == KeyOf(inflight[i])
            r == Place(players, Pos(players, k))
        IN  (m.kind = "summary" /\ Has(players, k))
                => /\ m.own # NoRow <=> r > TopN
                   /\ m.own # NoRow => m.own[1] = r

\* the suspended handler i goes on: its outbound call returned or raised
Resumes(i) ==
    \/ StartReplied(i) \/ NameReprompted(i) \/ NameGreeted(i)
    \/ QuestionSent(i) \/ SummarySent(i) \/ AnswerAcked(i)
    \/ AlreadyFinishedShown(i) \/ VerdictShown(i)
    \/ CancelReplied(i) \/ PlainReplied(i) \/ Fail(i)

\* the step handles an event of user a: the dispatch of one of a's updates
\* or a further step of one of a's handlers
Handles(a) ==
    \/ Event({a}, Chats)
    \/ \E i \in 1..Len(inflight) : inflight[i].u = a /\ Resumes(i)

\* the step leaves user b as it was in the store: present or absent as
\* before, and with the same name, score and qIndex
Kept(b) ==
    LET k == get_user_id(b) IN
    /\ Has(players', k) <=> Has(players, k)
    /\ Has(players, k) => Get(players', k) = Get(players, k)

\* C19: a step that handles an event of user a leaves every other user b as
\* it was in the store; stated by contraposition: a step that does not
\* leave b as it was handles no event of another user.
C19_OtherUsersFrame ==
    [][\A b \in Users :
          ~Kept(b) => \A a \in Users \ {b} : ~Handles(a)]_vars

\* C19 witness: a tap of user 1 has been evaluated and the cursor advanced
\* while user 2 holds a session with progress of its own; and user 1 has
\* been reset while user 2 holds a session.
C19_Witness ==
    \E i \in 1..Len(inflight) :
        /\ inflight[i].u = 1
        /\ \/ /\ inflight[i].pc = "ask_send"
              /\ inflight[i].advanced
              /\ Get(players, get_user_id(1)).q_index = 1
           \/ /\ inflight[i].pc = "reset_reply"
              /\ ~Has(players, get_user_id(1))
        /\ Has(players, get_user_id(2))
        /\ Get(players, get_user_id(2)).q_index = 2
        /\ Get(players, get_user_id(2)).score = 1

\* C20: whenever no handler is in flight, a session with qIndex > 0 or
\* score > 0 has a non-empty name.
C20_ProgressHasName ==
    Quiet => \A p \in Sessions :
                (p.q_index > 0 \/ p.score > 0) => p.name # <<>>

====
